---- MODULE Spec2Model ----
(***************************************************************************)
(* Model of pointercrate's ETag module (src/etag.rs).                      *)
(*                                                                         *)
(* A u64 is a sequence of 8 bytes, least significant byte first, so that   *)
(* the 64-bit arithmetic of the hasher and of the decimal formatting keeps *)
(* its width.  A string is the sequence of its bytes.                      *)
(***************************************************************************)
EXTENDS Integers, Sequences, FiniteSets, TLC

(***************************************************************************)
(* 64-bit words.  The word operations are functions, so that each is       *)
(* applied to values.                                                      *)
(***************************************************************************)
U64 == [1..8 -> 0..255]

Bytes == Seq(0..255)

U64Zero == <<0, 0, 0, 0, 0, 0, 0, 0>>

U64Max == <<255, 255, 255, 255, 255, 255, 255, 255>>

\* a ^ b for 4-bit a and b, at [a + 1][b + 1]
XorNibble ==
  <<
   << 0,  1,  2,  3,  4,  5,  6,  7,  8,  9, 10, 11, 12, 13, 14, 15>>,
     << 1,  0,  3,  2,  5,  4,  7,  6,  9,  8, 11, 10, 13, 12, 15, 14>>,
     << 2,  3,  0,  1,  6,  7,  4,  5, 10, 11,  8,  9, 14, 15, 12, 13>>,
     << 3,  2,  1,  0,  7,  6,  5,  4, 11, 10,  9,  8, 15, 14, 13, 12>>,
     << 4,  5,  6,  7,  0,  1,  2,  3, 12, 13, 14, 15,  8,  9, 10, 11>>,
     << 5,  4,  7,  6,  1,  0,  3,  2, 13, 12, 15, 14,  9,  8, 11, 10>>,
     << 6,  7,  4,  5,  2,  3,  0,  1, 14, 15, 12, 13, 10, 11,  8,  9>>,
     << 7,  6,  5,  4,  3,  2,  1,  0, 15, 14, 13, 12, 11, 10,  9,  8>>,
     << 8,  9, 10, 11, 12, 13, 14, 15,  0,  1,  2,  3,  4,  5,  6,  7>>,
     << 9,  8, 11, 10, 13, 12, 15, 14,  1,  0,  3,  2,  5,  4,  7,  6>>,
     <<10, 11,  8,  9, 14, 15, 12, 13,  2,  3,  0,  1,  6,  7,  4,  5>>,
     <<11, 10,  9,  8, 15, 14, 13, 12,  3,  2,  1,  0,  7,  6,  5,  4>>,
     <<12, 13, 14, 15,  8,  9, 10, 11,  4,  5,  6,  7,  0,  1,  2,  3>>,
     <<13, 12, 15, 14,  9,  8, 11, 10,  5,  4,  7,  6,  1,  0,  3,  2>>,
     <<14, 15, 12, 13, 10, 11,  8,  9,  6,  7,  4,  5,  2,  3,  0,  1>>,
     <<15, 14, 13, 12, 11, 10,  9,  8,  7,  6,  5,  4,  3,  2,  1,  0>>
  >>

XorByte(a, b) ==
  16 * XorNibble[(a \div 16) + 1][(b \div 16) + 1] + XorNibble[(a % 16) + 1][(b % 16) + 1]

Xor64[x \in U64, y \in U64] ==
  <<XorByte(x[1], y[1]), XorByte(x[2], y[2]), XorByte(x[3], y[3]), XorByte(x[4], y[4]),
    XorByte(x[5], y[5]), XorByte(x[6], y[6]), XorByte(x[7], y[7]), XorByte(x[8], y[8])>>

\* bits 0..23, 24..47 and 48..63 of a word as three numbers, and back
Limbs(x) ==
  <<x[1] + 256 * x[2] + 65536 * x[3], x[4] + 256 * x[5] + 65536 * x[6], x[7] + 256 * x[8]>>

FromLimbs[s \in Seq(Nat)] ==
  <<s[1] % 256, (s[1] \div 256) % 256, s[1] \div 65536,
    s[2] % 256, (s[2] \div 256) % 256, s[2] \div 65536,
    s[3] % 256, s[3] \div 256>>

\* the sums of the limbs, each with the carry of the one before; the carry
\* out of bit 63 is dropped
AddLimbs[x \in Seq(Nat), y \in Seq(Nat)] ==
  LET s1 == x[1] + y[1]
      s2 == x[2] + y[2] + (s1 \div 16777216)
      s3 == x[3] + y[3] + (s2 \div 16777216)
  IN  <<s1 % 16777216, s2 % 16777216, s3 % 65536>>

\* u64::wrapping_add
Add64[x \in U64, y \in U64] == FromLimbs[AddLimbs[Limbs(x), Limbs(y)]]

\* 2^n for n in 0..8
Pow2(n) == <<1, 2, 4, 8, 16, 32, 64, 128, 256>>[n + 1]

\* x rotated left by q whole bytes
RotlBytes[x \in U64, q \in 0..7] ==
  <<x[((8 - q) % 8) + 1], x[((9 - q) % 8) + 1], x[((10 - q) % 8) + 1],
    x[((11 - q) % 8) + 1], x[((12 - q) % 8) + 1], x[((13 - q) % 8) + 1],
    x[((14 - q) % 8) + 1], x[((15 - q) % 8) + 1]>>

\* x rotated left by r bits, r in 1..7: each byte takes the low 8 - r bits of
\* its own place and the high r bits of the byte below
RotlBits[x \in U64, lo \in 1..256, hi \in 1..256] ==
  <<(x[1] % lo) * hi + (x[8] \div lo), (x[2] % lo) * hi + (x[1] \div lo),
    (x[3] % lo) * hi + (x[2] \div lo), (x[4] % lo) * hi + (x[3] \div lo),
    (x[5] % lo) * hi + (x[4] \div lo), (x[6] % lo) * hi + (x[5] \div lo),
    (x[7] % lo) * hi + (x[6] \div lo), (x[8] % lo) * hi + (x[7] \div lo)>>

\* u64::rotate_left
Rotl64[x \in U64, k \in 0..63] ==
  IF k % 8 = 0 THEN RotlBytes[x, k \div 8]
  ELSE RotlBits[RotlBytes[x, k \div 8], Pow2(8 - (k % 8)), Pow2(k % 8)]

(***************************************************************************)
(* SipHash 1-3, the algorithm behind std's DefaultHasher.                  *)
(***************************************************************************)
\* the state v0..v3
SipState == [1..4 -> U64]

\* "somepseu", "dorandom", "lygenera", "tedbytes" as little-endian words
SipC0 == <<117, 101, 115, 112, 101, 109, 111, 115>>

SipC1 == <<109, 111, 100, 110, 97, 114, 111, 100>>

SipC2 == <<97, 114, 101, 110, 101, 103, 121, 108>>

SipC3 == <<115, 101, 116, 121, 98, 100, 101, 116>>

\* a round, in six steps
\* v0 += v1; v2 += v3
SipAdd1[v \in SipState] == <<Add64[v[1], v[2]], v[2], Add64[v[3], v[4]], v[4]>>

\* v1 <<<= 13; v1 ^= v0; v3 <<<= 16; v3 ^= v2
SipMix1[v \in SipState] ==
  <<v[1], Xor64[Rotl64[v[2], 13], v[1]], v[3], Xor64[Rotl64[v[4], 16], v[3]]>>

\* v0 <<<= 32
SipRot1[v \in SipState] == <<Rotl64[v[1], 32], v[2], v[3], v[4]>>

\* v0 += v3; v2 += v1
SipAdd2[v \in SipState] == <<Add64[v[1], v[4]], v[2], Add64[v[3], v[2]], v[4]>>

\* v3 <<<= 21; v3 ^= v0; v1 <<<= 17; v1 ^= v2
SipMix2[v \in SipState] ==
  <<v[1], Xor64[Rotl64[v[2], 17], v[3]], v[3], Xor64[Rotl64[v[4], 21], v[1]]>>

\* v2 <<<= 32
SipRot2[v \in SipState] == <<v[1], v[2], Rotl64[v[3], 32], v[4]>>

SipRound[v \in SipState] == SipRot2[SipMix2[SipAdd2[SipRot1[SipMix1[SipAdd1[v]]]]]]

SipXorV0[v \in SipState, m \in U64] == <<Xor64[v[1], m], v[2], v[3], v[4]>>

SipXorV2[v \in SipState, m \in U64] == <<v[1], v[2], Xor64[v[3], m], v[4]>>

SipXorV3[v \in SipState, m \in U64] == <<v[1], v[2], v[3], Xor64[v[4], m]>>

\* one message word: v3 ^= m; one c-round; v0 ^= m
SipCompress[v \in SipState, m \in U64] == SipXorV0[SipRound[SipXorV3[v, m]], m]

SipBlocks[v \in SipState, bytes \in Bytes] ==
  IF Len(bytes) < 8 THEN v
  ELSE SipBlocks[SipCompress[v, SubSeq(bytes, 1, 8)], SubSeq(bytes, 9, Len(bytes))]

\* the last word: the remaining bytes, zero padding, the length mod 256 on top
SipTail[bytes \in Bytes] ==
  LET n == Len(bytes)
      t == n % 8
      byte(i) == IF i <= t THEN bytes[n - t + i] ELSE 0
  IN  <<byte(1), byte(2), byte(3), byte(4), byte(5), byte(6), byte(7), n % 256>>

SipInit[k0 \in U64, k1 \in U64] ==
  <<Xor64[k0, SipC0], Xor64[k1, SipC1], Xor64[k0, SipC2], Xor64[k1, SipC3]>>

\* v2 ^= 0xff; three d-rounds; v0 ^ v1 ^ v2 ^ v3
SipFinal[v \in SipState] ==
  LET w == SipRound[SipRound[SipRound[SipXorV2[v, <<255, 0, 0, 0, 0, 0, 0, 0>>]]]]
  IN  Xor64[Xor64[w[1], w[2]], Xor64[w[3], w[4]]]

SipHash13[k0 \in U64, k1 \in U64, bytes \in Bytes] ==
  SipFinal[SipCompress[SipBlocks[SipInit[k0, k1], bytes], SipTail[bytes]]]

(***************************************************************************)
(* The hasher: std::collections::hash_map::DefaultHasher.                  *)
(* A hasher is its two keys and the bytes written to it so far; SipHash    *)
(* is a function of the keys and of the concatenation of all writes.       *)
(***************************************************************************)
VARIABLES
  obj,      \* the entity the handlers serve: [kind, id, name, score]
  epoch,    \* the process the server runs as (a restart gives the next one)
  builder,  \* the response builder of the request being served
  resp,     \* the outcome of json_with_etag for the request being served
  tagged,   \* history: the entities passed to etag on this builder, in call order
  served,   \* history: the entity and the process json_with_etag ran with
  frames,   \* per concurrent handler: the call in progress and its locals
  fmt       \* a pair of fingerprints and the tag string formatted from them

vars == <<obj, epoch, builder, resp, tagged, served, frames, fmt>>

\* a hasher seeded per process, as std's RandomState would build it
RandomStateHasher ==
  [k0 |-> <<epoch, 0, 0, 0, 0, 0, 0, 0>>, k1 |-> U64Zero, bytes |-> <<>>]

\* DefaultHasher::new(): SipHasher13 with both keys 0
DefaultHasherNew == [k0 |-> U64Zero, k1 |-> U64Zero, bytes |-> <<>>]

\* Hasher::write
Write(h, bytes) == [h EXCEPT !.bytes = @ \o bytes]

\* Hasher::finish
Finish(h) == SipHash13[h.k0, h.k1, h.bytes]

(***************************************************************************)
(* Display of integers, and the reading of a decimal u64.                  *)
(***************************************************************************)
\* x \div 10 and x % 10, by long division from the top limb
DivMod10[x \in Seq(Nat)] ==
  LET n2 == (x[3] % 10) * 16777216 + x[2]
      n1 == (n2 % 10) * 16777216 + x[1]
  IN  [q |-> <<n1 \div 10, n2 \div 10, x[3] \div 10>>, r |-> n1 % 10]

DigitsOf[x \in Seq(Nat)] ==
  IF x = <<0, 0, 0>> THEN <<>>
  ELSE DigitsOf[DivMod10[x].q] \o <<48 + DivMod10[x].r>>

\* the decimal digits of a word, most significant first; none for 0
Digits(x) == DigitsOf[Limbs(x)]

\* a mutant of DisplayU64: zero printed as the empty string
DisplayNoZero(x) == Digits(x)

\* format!("{}", x) for x: u64
DisplayU64(x) == IF x = U64Zero THEN <<48>> ELSE Digits(x)

RECURSIVE NatDigits(_)
NatDigits(n) == IF n = 0 THEN <<>> ELSE NatDigits(n \div 10) \o <<48 + (n % 10)>>

\* i32::to_string
DisplayI32(n) ==
  IF n = 0 THEN <<48>> ELSE IF n < 0 THEN <<45>> \o NatDigits(-n) ELSE NatDigits(n)

\* i32::to_le_bytes (two's complement)
I32Bytes(n) ==
  LET m == IF n < 0 THEN (n + 2147483647) + 1 ELSE n
      top == IF n < 0 THEN 128 ELSE 0
  IN  <<m % 256, (m \div 256) % 256, (m \div 65536) % 256, (m \div 16777216) + top>>

\* x * 10 + c in limbs; the fourth number is what overflows 64 bits
MulAdd10[x \in Seq(Nat), c \in 0..9] ==
  LET s1 == x[1] * 10 + c
      s2 == x[2] * 10 + (s1 \div 16777216)
      s3 == x[3] * 10 + (s2 \div 16777216)
  IN  <<s1 % 16777216, s2 % 16777216, s3 % 65536, s3 \div 65536>>

\* the digits of s from the i-th on, read onto acc; <<>> when s is not a
\* decimal u64
ParseFrom[s \in Bytes, i \in Nat, acc \in Seq(Nat)] ==
  IF acc = <<>> \/ i > Len(s) THEN acc
  ELSE IF s[i] < 48 \/ s[i] > 57 \/ MulAdd10[acc, s[i] - 48][4] # 0 THEN <<>>
  ELSE ParseFrom[s, i + 1, SubSeq(MulAdd10[acc, s[i] - 48], 1, 3)]

ParseResult[l \in Seq(Nat)] ==
  IF l = <<>> THEN [ok |-> FALSE, val |-> U64Zero] ELSE [ok |-> TRUE, val |-> FromLimbs[l]]

\* the reader's side: a non-empty run of decimal digits that fits 64 bits
ParseU64(s) ==
  IF s = <<>> THEN [ok |-> FALSE, val |-> U64Zero]
  ELSE ParseResult[ParseFrom[s, 1, <<0, 0, 0>>]]

(***************************************************************************)
(* Entity types.  Taggable is implemented outside this file; three kinds   *)
(* of implementor stand for them:                                          *)
(*   Default    #[derive(Hash)], no override of patch_part                 *)
(*   Patchable  #[derive(Hash)], patch_part hashes id and name only        *)
(*              (score is not modifiable via PATCH)                        *)
(*   Concat     a hand-written Hash that writes the fields' text one after *)
(*              the other, no override of patch_part                       *)
(***************************************************************************)
MaxRestarts == 1

MaxEtagCalls == 2

NumHandlers == 2

Kinds == {"Default", "Patchable", "Concat"}

\* "abc", "abc1"
Names == {<<97, 98, 99>>, <<97, 98, 99, 49>>}

\* a negative score is a malformed state: the entity's Serialize rejects it
Scores == {-1, 0, 10}

EntityStates ==
  {[kind |-> k, id |-> 1, name |-> n, score |-> s] : k \in Kinds, n \in Names, s \in Scores}

\* the fields a direct PATCH can modify, as the Patchable kind hashes them
HashPatchFields(e, h) == Write(Write(h, I32Bytes(e.id)), e.name \o <<255>>)

\* <H as Hash>::hash(&self, state)
HashEntity(e, h) ==
  IF e.kind = "Concat"
  THEN Write(Write(Write(h, DisplayI32(e.id)), e.name), DisplayI32(e.score))
  ELSE Write(HashPatchFields(e, h), I32Bytes(e.score))

(***************************************************************************)
(* trait Taggable                                                          *)
(***************************************************************************)
get_part(e) == Finish(HashEntity(e, DefaultHasherNew))

\* a mutant of patch_part_default: hashes nothing
patch_part_empty(e) == Finish(DefaultHasherNew)

\* the provided method
patch_part_default(e) == get_part(e)

\* the override of the Patchable kind
patch_part_override(e) == Finish(HashPatchFields(e, DefaultHasherNew))

patch_part(e) ==
  IF e.kind = "Patchable" THEN patch_part_override(e) ELSE patch_part_default(e)

\* a mutant of FormatTag: the two parts in the other order
FormatTagSwapped(p, g) == DisplayU64(g) \o <<59>> \o DisplayU64(p)

\* format!("{};{}", p, g)
FormatTag(p, g) == DisplayU64(p) \o <<59>> \o DisplayU64(g)

etag_string(e) == FormatTag(patch_part(e), get_part(e))

(***************************************************************************)
(* The response builder (actix_web::dev::HttpResponseBuilder) and          *)
(* serde_json, as far as this file uses them.                              *)
(***************************************************************************)
FreshBuilder == [live |-> TRUE, headers |-> <<>>]

\* a builder whose response has been taken, or that was dropped
SpentBuilder == [live |-> FALSE, headers |-> <<>>]

\* HttpResponseBuilder::header: appends to the values the name already has;
\* nothing happens on a builder whose response has been taken
header(b, name, value) ==
  IF ~b.live THEN b ELSE [b EXCEPT !.headers = Append(@, <<name, value>>)]

\* the values of the header called name, in order
HeaderValues(headers, name) ==
  LET kept == SelectSeq(headers, LAMBDA kv : kv[1] = name)
  IN  [i \in 1..Len(kept) |-> kept[i][2]]

OtherHeaders(headers, name) == SelectSeq(headers, LAMBDA kv : kv[1] # name)

etag(b, e) == header(b, "ETag", etag_string(e))

SerializeFails(e) == e.score < 0

\* serde_json::to_value(obj)
ToValue(e) == [id |-> e.id, name |-> e.name, score |-> e.score]

NoOutcome == [kind |-> "none", headers |-> <<>>, body |-> <<>>, error |-> ""]

Panic(msg) == [kind |-> "panic", headers |-> <<>>, body |-> <<>>, error |-> msg]

\* "application/json"
JsonType == <<97, 112, 112, 108, 105, 99, 97, 116, 105, 111, 110, 47, 106, 115, 111, 110>>

\* HttpResponseBuilder::json: takes the response out of the builder
json(b, value) ==
  IF ~b.live
  THEN [out |-> Panic("cannot reuse response builder"), builder |-> b]
  ELSE [out |-> [kind |-> "response",
                 headers |-> IF HeaderValues(b.headers, "Content-Type") = <<>>
                             THEN Append(b.headers, <<"Content-Type", JsonType>>)
                             ELSE b.headers,
                 body |-> value,
                 error |-> ""],
        builder |-> SpentBuilder]

\* a mutant of json_with_etag: the body is the entity itself, no envelope
json_with_etag_bare(b, e) ==
  IF SerializeFails(e)
  THEN [out |-> Panic("serialization"), builder |-> SpentBuilder]
  ELSE json(etag(b, e), ToValue(e))

\* a mutant of json_with_etag: a failed serialization answered with a response
json_with_etag_caught(b, e) ==
  json(etag(b, e), IF SerializeFails(e) THEN [error |-> "serialization"]
                   ELSE [data |-> ToValue(e)])

\* self.etag(obj).json(serde_json::json!({ "data": obj })): the tag is attached,
\* then json! unwraps to_value(obj), so a failed serialization panics with the
\* serializer's error and the unwinding drops the builder
json_with_etag(b, e) ==
  IF SerializeFails(e)
  THEN [out |-> Panic("serialization"), builder |-> SpentBuilder]
  ELSE json(etag(b, e), [data |-> ToValue(e)])

(***************************************************************************)
(* Requests served one at a time, the entity written between calls.        *)
(***************************************************************************)
Handlers == 1..NumHandlers

IdleFrame ==
  [op |-> "none", pc |-> "idle", phase |-> "none", hasher |-> DefaultHasherNew,
   patch |-> U64Zero, get |-> U64Zero, tag |-> <<>>, builder |-> SpentBuilder,
   ret |-> <<>>]

NoFmt == [patch |-> U64Zero, get |-> U64Zero, out |-> <<>>]

Init ==
  /\ obj \in EntityStates
  /\ epoch = 0
  /\ builder = FreshBuilder
  /\ resp = NoOutcome
  /\ tagged = <<>>
  /\ served = <<>>
  /\ frames = [h \in Handlers |-> IdleFrame]
  /\ fmt = NoFmt

\* a change to a field no PATCH can modify
SetScore ==
  /\ \E v \in Scores \ {obj.score} : obj' = [obj EXCEPT !.score = v]
  /\ UNCHANGED <<epoch, builder, resp, tagged, served, frames, fmt>>

\* a change to a patchable field
SetName ==
  /\ \E n \in Names \ {obj.name} : obj' = [obj EXCEPT !.name = n]
  /\ UNCHANGED <<epoch, builder, resp, tagged, served, frames, fmt>>

\* the server process ends and a new one starts; the client keeps its response
Restart ==
  /\ epoch < MaxRestarts
  /\ epoch' = epoch + 1
  /\ builder' = SpentBuilder
  /\ tagged' = <<>>
  /\ UNCHANGED <<obj, resp, served, frames, fmt>>

\* "no-cache"
NoCache == <<110, 111, 45, 99, 97, 99, 104, 101>>

\* the next request: HttpResponse::Ok() with a header of the caller's
NewBuilder ==
  /\ builder' = header(FreshBuilder, "Cache-Control", NoCache)
  /\ resp' = NoOutcome
  /\ tagged' = <<>>
  /\ served' = <<>>
  /\ UNCHANGED <<obj, epoch, frames, fmt>>

\* builder.etag(&obj)
Etag ==
  /\ Len(tagged) < MaxEtagCalls
  /\ builder' = etag(builder, obj)
  /\ tagged' = IF builder.live THEN Append(tagged, obj) ELSE tagged
  /\ UNCHANGED <<obj, epoch, resp, served, frames, fmt>>

\* builder.json_with_etag(&obj)
JsonWithEtag ==
  /\ Len(tagged) < MaxEtagCalls
  /\ LET r == json_with_etag(builder, obj)
     IN  /\ resp' = r.out
         /\ builder' = r.builder
  /\ tagged' = <<>>
  /\ served' = <<[obj |-> obj, epoch |-> epoch]>>
  /\ UNCHANGED <<obj, epoch, frames, fmt>>

Next ==
  \/ SetScore
  \/ SetName
  \/ Restart
  \/ NewBuilder
  \/ Etag
  \/ JsonWithEtag

Spec == Init /\ [][Next]_vars

(***************************************************************************)
(* The reader's side of a tag string, used to state the properties.        *)
(***************************************************************************)
Semicolons(s) == {i \in 1..Len(s) : s[i] = 59}

FirstSemicolon(s) == CHOOSE i \in Semicolons(s) : \A j \in Semicolons(s) : i <= j

\* the text before the first ';' and the text after it
TagLeft(s) == IF Semicolons(s) = {} THEN s ELSE SubSeq(s, 1, FirstSemicolon(s) - 1)

TagRight(s) == IF Semicolons(s) = {} THEN <<>> ELSE SubSeq(s, FirstSemicolon(s) + 1, Len(s))

\* decimal digits only, at least one, no leading zero but in "0"
CanonicalDecimal(s) ==
  /\ Len(s) >= 1
  /\ \A i \in 1..Len(s) : s[i] >= 48 /\ s[i] <= 57
  /\ (Len(s) > 1 => s[1] # 48)

LastEtag(headers) ==
  LET v == HeaderValues(headers, "ETag") IN IF Len(v) = 0 THEN <<>> ELSE v[Len(v)]

\* the tag the response in resp was issued with, and the entity it was made from
IssuedTag == LastEtag(resp.headers)

IssuedFor == served[1].obj

Issued == resp.kind = "response"

(***************************************************************************)
(* Properties of the sequential specification.                             *)
(***************************************************************************)

\* C1: for the kind that overrides patch_part to hash only its patchable
\* fields, whenever the patchable fields are what they were when a tag was
\* issued (whatever happened to score since), the first component of the
\* issued tag equals the current patch_part: the PATCH precondition holds.
C1_PatchPartIgnoresScore ==
  (Issued /\ obj.kind = "Patchable" /\ IssuedFor.id = obj.id /\ IssuedFor.name = obj.name)
    => /\ ParseU64(TagLeft(IssuedTag)).ok
       /\ ParseU64(TagLeft(IssuedTag)).val = patch_part(obj)

\* a tag was issued, only score changed since, and get_part did change
C1_Witness ==
  /\ Issued /\ obj.kind = "Patchable"
  /\ IssuedFor.id = obj.id /\ IssuedFor.name = obj.name
  /\ IssuedFor.score # obj.score
  /\ ParseU64(TagLeft(IssuedTag)).val = patch_part(obj)
  /\ ParseU64(TagRight(IssuedTag)).val # get_part(obj)

\* C2: determinism.  A tag computed earlier for an entity state (by any earlier
\* call, in this process or in one before a restart) equals what etag_string,
\* patch_part and get_part return now for the same state.
C2_Deterministic ==
  /\ (Issued /\ IssuedFor = obj)
       => /\ IssuedTag = etag_string(obj)
          /\ ParseU64(TagLeft(IssuedTag)).val = patch_part(obj)
          /\ ParseU64(TagRight(IssuedTag)).val = get_part(obj)
  /\ (builder.live /\ tagged # <<>> /\ tagged[Len(tagged)] = obj)
       => LastEtag(builder.headers) = etag_string(obj)

\* the same state is hashed again in a later process
C2_Witness == Issued /\ IssuedFor = obj /\ served[1].epoch # epoch

\* C3: default coincidence.  For a kind that does not override patch_part,
\* patch_part equals get_part in every state, and both components of every
\* issued tag are the same number.
C3_DefaultCoincidence ==
  obj.kind # "Patchable"
    => /\ patch_part(obj) = get_part(obj)
       /\ Issued => ParseU64(TagLeft(IssuedTag)) = ParseU64(TagRight(IssuedTag))

C3_Witness == obj.kind = "Default" /\ Issued /\ ParseU64(TagLeft(IssuedTag)).ok

\* C5 as stated: get_part of two states is equal exactly when the states are
\* equal in every field fed to the hash (all kinds feed id, name and score).
C5_GetPartIffFieldsEqual ==
  Issued => ((ParseU64(TagRight(IssuedTag)).val = get_part(obj)) <=> (IssuedFor = obj))

\* C5 as amended: states equal in every field fed to the hash have equal
\* get_part, so a get_part that differs from an issued one shows a changed field.
C5_GetPartDiffersOnlyIfFieldsDiffer ==
  (Issued /\ ParseU64(TagRight(IssuedTag)).val # get_part(obj)) => IssuedFor # obj

\* a changed field that changed get_part, seen from a later process
C5_Witness ==
  /\ Issued /\ IssuedFor # obj /\ served[1].epoch # epoch
  /\ ParseU64(TagRight(IssuedTag)).val # get_part(obj)

\* C6 as stated, on a builder whose response has not been taken: etag(obj)
\* leaves the header ETag with exactly the value etag_string(obj), leaves the
\* other headers and obj alone, and the builder stays usable for chaining.
C6_EtagSetsExactlyTheTag ==
  [][(builder.live /\ Etag)
       => /\ HeaderValues(builder'.headers, "ETag") = <<etag_string(obj)>>
          /\ OtherHeaders(builder'.headers, "ETag") = OtherHeaders(builder.headers, "ETag")
          /\ obj' = obj
          /\ builder'.live]_vars

C8_SerializationFailurePropagates ==
  (served # <<>> /\ SerializeFails(IssuedFor))
    => /\ resp.kind = "panic"
       /\ resp.error = "serialization"

C8_Witness == served # <<>> /\ SerializeFails(IssuedFor) /\ resp.kind = "panic"

\* C9 as stated: after etag calls on one builder, the builder holds exactly one
\* ETag value, etag_string of the entity passed to the last call.
C9_OneEtagLastWins ==
  (builder.live /\ tagged # <<>>)
    => HeaderValues(builder.headers, "ETag") = <<etag_string(tagged[Len(tagged)])>>

(***************************************************************************)
(* Formatting on its own: any pair of u64 can be the two parts of some     *)
(* implementor's tag.                                                      *)
(***************************************************************************)
\* 0, 1, 9, 10, 255, 256, 10^19 - 1, 10^19, 2^63, 2^64 - 1
U64Samples ==
  { U64Zero,
    <<1, 0, 0, 0, 0, 0, 0, 0>>,
    <<9, 0, 0, 0, 0, 0, 0, 0>>,
    <<10, 0, 0, 0, 0, 0, 0, 0>>,
    <<255, 0, 0, 0, 0, 0, 0, 0>>,
    <<0, 1, 0, 0, 0, 0, 0, 0>>,
    <<255, 255, 231, 137, 4, 35, 199, 138>>,
    <<0, 0, 232, 137, 4, 35, 199, 138>>,
    <<0, 0, 0, 0, 0, 0, 0, 128>>,
    U64Max }

FormatValues ==
  /\ \E p \in U64Samples, g \in U64Samples :
       fmt' = [patch |-> p, get |-> g, out |-> FormatTag(p, g)]
  /\ UNCHANGED <<obj, epoch, builder, resp, tagged, served, frames>>

FormatEntity ==
  /\ \E e \in EntityStates :
       fmt' = [patch |-> patch_part(e), get |-> get_part(e), out |-> etag_string(e)]
  /\ UNCHANGED <<obj, epoch, builder, resp, tagged, served, frames>>

FmtNext ==
  \/ FormatValues
  \/ FormatEntity

\* formatting does not read the served entity: one initial state stands for all
FmtInit == Init /\ obj = [kind |-> "Default", id |-> 1, name |-> <<97, 98, 99>>, score |-> 10]

FmtSpec == FmtInit /\ [][FmtNext]_vars

\* C4: a tag string is decimal digits, exactly one ';', decimal digits, with
\* no leading zero but in "0", and reading the two halves as u64 gives back
\* the patch part and the get part, in that order.
C4_FormatRoundTrip ==
  fmt.out # <<>>
    => /\ Cardinality(Semicolons(fmt.out)) = 1
       /\ CanonicalDecimal(TagLeft(fmt.out))
       /\ CanonicalDecimal(TagRight(fmt.out))
       /\ ParseU64(TagLeft(fmt.out)) = [ok |-> TRUE, val |-> fmt.patch]
       /\ ParseU64(TagRight(fmt.out)) = [ok |-> TRUE, val |-> fmt.get]

\* the two ends of the range in one tag
C4_Witness == fmt.out # <<>> /\ fmt.patch = U64Zero /\ fmt.get = U64Max

(***************************************************************************)
(* Several handlers at once, each call taken one line at a time.  The      *)
(* entity is borrowed shared for the length of every call, so it is not    *)
(* written.                                                                *)
(***************************************************************************)
Ops == {"get_part", "patch_part", "etag_string", "etag"}

Step(h, f) == frames' = [frames EXCEPT ![h] = f]

Others == <<obj, epoch, builder, resp, tagged, served, fmt>>

\* a handler calls one of the operations; etag is called on a builder of its own
Call(h) ==
  /\ frames[h].pc = "idle"
  /\ \E op \in Ops :
       Step(h, [IdleFrame EXCEPT
                  !.op = op, !.pc = "new",
                  !.phase = IF op = "get_part" THEN "get" ELSE "patch",
                  !.builder = IF op = "etag" THEN FreshBuilder ELSE SpentBuilder])
  /\ UNCHANGED Others

\* let mut hasher = DefaultHasher::new();
HasherNew(h) ==
  /\ frames[h].pc = "new"
  /\ Step(h, [frames[h] EXCEPT !.hasher = DefaultHasherNew, !.pc = "hash"])
  /\ UNCHANGED Others

\* what the running part hashes: the override of the Patchable kind hashes the
\* patchable fields, everything else self.hash(&mut hasher)
HashInto(f, h) ==
  IF f.phase = "patch" /\ obj.kind = "Patchable"
  THEN HashPatchFields(obj, h) ELSE HashEntity(obj, h)

\* a mutant of HasherHash: one hasher shared by all handlers, so the write
\* lands in every call that is between its new() and its finish()
HasherHashShared(h) ==
  /\ frames[h].pc = "hash"
  /\ frames' = [g \in Handlers |->
       IF g = h
       THEN [frames[g] EXCEPT !.hasher = HashInto(frames[h], @), !.pc = "finish"]
       ELSE IF frames[g].pc \in {"hash", "finish"}
            THEN [frames[g] EXCEPT !.hasher = HashInto(frames[h], @)]
            ELSE frames[g]]
  /\ UNCHANGED Others

\* self.hash(&mut hasher);
HasherHash(h) ==
  /\ frames[h].pc = "hash"
  /\ Step(h, [frames[h] EXCEPT !.hasher = HashInto(frames[h], @), !.pc = "finish"])
  /\ UNCHANGED Others

\* hasher.finish(): the value returns to patch_part's or get_part's caller
HasherFinish(h) ==
  /\ frames[h].pc = "finish"
  /\ LET f == frames[h]
         v == Finish(f.hasher)
     IN  Step(h,
           IF f.phase = "patch"
           THEN IF f.op = "patch_part"
                THEN [f EXCEPT !.patch = v, !.ret = v, !.pc = "done"]
                ELSE [f EXCEPT !.patch = v, !.phase = "get", !.pc = "new"]
           ELSE IF f.op = "get_part"
                THEN [f EXCEPT !.get = v, !.ret = v, !.pc = "done"]
                ELSE [f EXCEPT !.get = v, !.pc = "format"])
  /\ UNCHANGED Others

\* format!("{};{}", self.patch_part(), self.get_part())
FormatStep(h) ==
  /\ frames[h].pc = "format"
  /\ LET f == frames[h]
         t == FormatTag(f.patch, f.get)
     IN  Step(h,
           IF f.op = "etag_string"
           THEN [f EXCEPT !.tag = t, !.ret = t, !.pc = "done"]
           ELSE [f EXCEPT !.tag = t, !.pc = "header"])
  /\ UNCHANGED Others

\* self.header("ETag", ...): returns the builder
HeaderStep(h) ==
  /\ frames[h].pc = "header"
  /\ LET f == frames[h]
         b == header(f.builder, "ETag", f.tag)
     IN  Step(h, [f EXCEPT !.builder = b, !.ret = b, !.pc = "done"])
  /\ UNCHANGED Others

\* the caller takes the result
Return(h) ==
  /\ frames[h].pc = "done"
  /\ Step(h, IdleFrame)
  /\ UNCHANGED Others

ConcNext ==
  \E h \in Handlers :
    \/ Call(h)
    \/ HasherNew(h)
    \/ HasherHash(h)
    \/ HasherFinish(h)
    \/ FormatStep(h)
    \/ HeaderStep(h)
    \/ Return(h)

\* "abc", score 10
ConcInit == Init /\ obj.name = <<97, 98, 99>> /\ obj.score = 10

SpecConc == ConcInit /\ [][ConcNext]_vars

\* what the call in frame f returns when it runs alone
AloneResult(f) ==
  CASE f.op = "get_part" -> get_part(obj)
    [] f.op = "patch_part" -> patch_part(obj)
    [] f.op = "etag_string" -> etag_string(obj)
    [] f.op = "etag" -> etag(FreshBuilder, obj)

\* C10: in every interleaving of the handlers' calls, a finished call holds
\* the value it returns when run alone, the parts it computed on the way are
\* the entity's, its builder holds what its own call put there and nothing
\* else, and the entity is as it was.
C10_NoInterference ==
  /\ obj.name = <<97, 98, 99>> /\ obj.score = 10
  /\ \A h \in Handlers :
       LET f == frames[h]
       IN  /\ f.pc = "done" => f.ret = AloneResult(f)
           /\ f.pc \in {"format", "header"}
                => f.patch = patch_part(obj) /\ f.get = get_part(obj)
           /\ f.builder = IF f.op # "etag" THEN SpentBuilder
                          ELSE IF f.pc = "done" THEN etag(FreshBuilder, obj)
                          ELSE FreshBuilder

\* one handler has finished an etag call that another's hashing overlapped
C10_Witness ==
  \E h \in Handlers, g \in Handlers :
    /\ h # g
    /\ frames[h].pc = "done" /\ frames[h].op = "etag"
    /\ frames[g].pc = "finish"

====
